---- MODULE Spec2Model ----
(***************************************************************************)
(* Model of the SMCL order retrieval engine.                               *)
(*                                                                         *)
(*  - SMCLScraper.download_delivery_lists and the phases it drives         *)
(*    (src/services/scraping/smcl_scraper.py), together with its caller    *)
(*    DeliveryListProcessor.run (src/main.py): specification Spec.         *)
(*  - SMCLScraper._wait_for_new_csv, the download completion detector of   *)
(*    src/scraping/smcl_scraper.py: specification SpecWait; with the       *)
(*    error branch of _snapshot_existing_csv: specification SpecSnapshot.  *)
(*    With the move of the file into the destination subdirectory that     *)
(*    click_download_all_details makes after the wait: SpecMove.           *)
(*  - SMCLScraper._get_available_order_links on one listing page           *)
(*    (src/services/scraping/smcl_scraper.py): specification SpecScan.     *)
(*  - the element locators of src/scraping/smcl_scraper.py (_find_first,   *)
(*    _try_click_with_xpaths and the polling of                            *)
(*    click_download_all_details): specification SpecLocate.               *)
(*                                                                         *)
(* The web site and the download directory are the environment: the site  *)
(* holds a set of unconsumed orders, renders them as grid rows ctl02,      *)
(* ctl03, ... and removes an order once its confirmation is submitted.     *)
(***************************************************************************)
EXTENDS Integers, Sequences, FiniteSets, Bags, TLC

\* ---------------------------------------------------------------- bounds
\* a run starts with 0..MaxOrders unconsumed orders on the site, or with a
\* backlog around the round limit (BacklogSizes)
MaxOrders == 10
\* a defect of the site shows from one of the rounds 1..MaxDefectRound on
MaxDefectRound == 2
\* file sizes in the download directory are 0..MaxSize
MaxSize == 1
\* polls _wait_for_new_csv can make before its timeout
MaxPolls == 4
\* a list given to _find_first or _try_click_with_xpaths has 0..MaxStrategies
\* entries
MaxStrategies == 3
\* passes the polling of click_download_all_details can make before its
\* deadline
MaxScans == 2
\* elements of the page that the strategies of a call can match
MaxElements == 2
\* changes of the page during a call
MaxChanges == 1
\* rows of a listing that are hidden or disabled
MaxHidden == 1

\* ------------------------------------------------------ program constants
max_attempts == 50
StallThreshold == 3
TestModeLimit == 10
ScanFirst == 2
ScanStop == 20
\* xpath_sets of click_download_all_details: entries of the two lists
SetOneSize == 5
SetTwoSize == 3

VARIABLES
    \* configuration (Config, SMCLScraper.__init__)
    test_mode, enable_confirmation_process,
    \* the site
    defect,           \* the one thing that goes wrong in this run, if any
    remaining,        \* orders not yet consumed on the server
    listing,          \* rows of the listing page rendered last, in row order
    sentinel,         \* the rendered page shows the no-data message
    artifact,         \* download of the order opened last: "none", "missing", "complete"
    ready,            \* the page-ready signal (document.readyState complete)
                      \* was observed since the last navigation of the browser
    \* the scraper
    pc, driver, procs, attempt, processed_orders, no_new_data_count,
    no_data_found, target, curOrder, po_result, result,
    \* the caller (DeliveryListProcessor.run)
    runOutcome,
    \* history
    setupOk, quitCalls, quitErrors, exitReason, opened, nProcessed,
    csvClicks, printClicks, checkboxClicks, confirmClicks,
    doneOrders,       \* history: the orders whose processing has succeeded
    swallowed,        \* history: the steps whose error was caught and not
                      \* reported to the caller of the step
    \* the download directory and _wait_for_new_csv (src/scraping)
    dir,              \* file name -> size, Absent if there is no such file
    mtimeOrder,       \* the files present, least recently modified first
    before,           \* the snapshot taken by _snapshot_existing_csv
    atSnapshot,       \* history: the "*.csv" names present when it was taken
    wpc, last_path, last_size, polls, wresult,
    seen,             \* history: the last two sizes read of each file
    renamedAt,        \* history: polls made when the partial download of
                      \* JuchuA, not read before, got its final name
    prev_poll,        \* history: what the poll before the last one, or before
                      \* the returning one, has observed: << path, size >>
    dest_dir,         \* the destination subdirectory: file name -> what the
                      \* file of that name holds ("absent" if there is none)
    saved,            \* what click_download_all_details returns after the wait
    \* the locators (src/scraping)
    loc_fn,           \* the locator that was called
    xpaths,           \* entries of the list it was given (strategies 1..xpaths)
    page,             \* strategy -> state of the element it matches
    changes,          \* history: changes of the page since the call
    lpc, idx, last_error, scans, lresult,
    tries,            \* history: << strategy, resolved >> of every try made
    used,             \* history: the strategy whose element was taken (0: none)
    \* _get_available_order_links on a listing page (src/services)
    grid,             \* the rows of the page: "shown", "hidden" or "disabled"
    spc,              \* "off", "scan", "done"
    scan_i,           \* the loop variable i
    available_links   \* the list built so far, returned at the end

runVars == << test_mode, enable_confirmation_process, defect, remaining,
              listing, sentinel, artifact, ready, pc, driver, procs, attempt,
              processed_orders, no_new_data_count, no_data_found, target,
              curOrder, po_result, result, runOutcome, setupOk, quitCalls,
              quitErrors, exitReason, opened, nProcessed, csvClicks, printClicks,
              checkboxClicks, confirmClicks, swallowed, doneOrders >>

moveVars == << dest_dir, saved >>

waitVars == << dir, mtimeOrder, before, wpc, last_path, last_size, polls,
              wresult, seen, renamedAt, prev_poll, atSnapshot, moveVars >>

locVars == << loc_fn, xpaths, page, changes, lpc, idx, last_error, scans,
             lresult, tries, used >>

scanVars == << grid, spc, scan_i, available_links >>

vars == << runVars, waitVars, locVars, scanVars >>

\* ------------------------------------------------------------ identifiers
IdPrefix == "ctl00_ContentPlaceHolder1_GridView1_ctl"
IdSuffix == "_ImpDateLinkButton"

\* identifier the site gives the link of grid row i: a two-digit row index
SiteRowId(i) ==
    IdPrefix \o (IF i < 10 THEN "0" \o ToString(i) ELSE ToString(i)) \o IdSuffix

\* identifier _get_available_order_links generates for row index i
LinkId(i) == IdPrefix \o "0" \o ToString(i) \o IdSuffix

\* identifier process_order_details_and_download uses when given no target
DefaultLinkId == "ctl00_ContentPlaceHolder1_GridView1_ctl02_ImpDateLinkButton"

\* the rows of a listing: the orders of S in ascending order
RECURSIVE SortedSeq(_)
SortedSeq(S) ==
    IF S = {} THEN << >>
    ELSE LET m == CHOOSE x \in S : \A y \in S : x <= y
         IN  << m >> \o SortedSeq(S \ {m})

\* element identifiers of the order links present on a listing page
PageIds(rows) == { SiteRowId(k + 1) : k \in 1..Len(rows) }

\* the order behind a link of the listing page (0: no such link)
OrderAt(rows, id) ==
    IF \E k \in 1..Len(rows) : SiteRowId(k + 1) = id
    THEN rows[CHOOSE k \in 1..Len(rows) : SiteRowId(k + 1) = id]
    ELSE 0

\* _get_available_order_links: scan ctl0<i> for i in range(2, 20), stop at
\* the first identifier that is not on the page
RECURSIVE ScanLinks(_, _, _)
ScanLinks(rows, i, acc) ==
    IF i >= ScanStop THEN acc
    ELSE IF LinkId(i) \notin PageIds(rows) THEN acc
    ELSE ScanLinks(rows, i + 1, Append(acc, LinkId(i)))

get_available_order_links(rows) == ScanLinks(rows, ScanFirst, << >>)

\* the last link of the list that is not in the processed set
FirstNew_takes_last(links, done) ==
    LET new == { k \in 1..Len(links) : links[k] \notin done }
    IN  IF new = {} THEN ""
        ELSE links[CHOOSE k \in new : \A j \in new : j <= k]

\* first link of the list that is not in the processed set ("" if none)
RECURSIVE FirstNew(_, _)
FirstNew(links, done) ==
    IF links = << >> THEN ""
    ELSE IF Head(links) \notin done THEN Head(links)
    ELSE FirstNew(Tail(links), done)

\* -------------------------------------------------------- the environment
\* order backlogs around the round limit
BacklogSizes == { max_attempts - 1, max_attempts, max_attempts + 1 }

\* What can go wrong in a run.  A run meets at most one defect: a step of
\* the given kind fails in the rounds from..to (one round: a transient
\* failure such as a timeout; up to the last round: a control that is gone).
\* Steps before the loop run in round 0.
NoDefect == [ kind |-> "none", from |-> 0, to |-> 0 ]

PreLoopKinds == { "setup", "access", "login", "error_check", "select_user" }

LoopKinds == { "navigate", "csv", "detail_link", "print", "download",
               "checkbox", "confirm_button", "back_nav", "set_date" }

Defects ==
    { NoDefect }
    \cup { [ kind |-> k, from |-> 0, to |-> 0 ] : k \in PreLoopKinds }
    \cup { [ kind |-> k, from |-> f, to |-> f ] :
              k \in LoopKinds, f \in 1..MaxDefectRound }
    \cup { [ kind |-> k, from |-> f, to |-> max_attempts ] :
              k \in LoopKinds, f \in 1..MaxDefectRound }

\* the step of kind k fails now
Fails(k) == defect.kind = k /\ attempt \in defect.from..defect.to

\* ------------------------------------------------------------------- Init
RunInit ==
    /\ test_mode \in BOOLEAN
    /\ enable_confirmation_process \in BOOLEAN
    /\ defect \in Defects
    /\ \E n \in (0..MaxOrders) \cup BacklogSizes : remaining = 1..n
    /\ listing = << >>
    /\ sentinel = FALSE
    /\ artifact = "none"
    /\ ready = FALSE
    /\ pc = "start"
    /\ driver = 0
    /\ procs = {}
    /\ attempt = 0
    /\ processed_orders = {}
    /\ no_new_data_count = 0
    /\ no_data_found = FALSE
    /\ target = ""
    /\ curOrder = 0
    /\ po_result = FALSE
    /\ result = "pending"
    /\ runOutcome = "pending"
    /\ setupOk = FALSE
    /\ quitCalls = 0
    /\ quitErrors = 0
    /\ exitReason = "none"
    /\ opened = EmptyBag
    /\ nProcessed = 0
    /\ csvClicks = 0
    /\ printClicks = 0
    /\ checkboxClicks = 0
    /\ confirmClicks = 0
    /\ swallowed = {}
    /\ doneOrders = {}


\* ------------------------------------------------- the download directory
\* The file names of the model, and the two glob patterns on them:
\*   JuchuA, JuchuB   match "受注伝票_*.csv" (and "*.csv")
\*   PartialA         JuchuA with a partial-download suffix: matches neither
\* (a name matching "*.csv" only would enter the snapshot and never be a
\* candidate: it is left out)
JuchuA == "juchu_A.csv"
JuchuB == "juchu_B.csv"
PartialA == "juchu_A.csv.crdownload"

FileNames == { JuchuA, JuchuB, PartialA }

GlobCsv == { JuchuA, JuchuB }

\* (a pattern without the ".csv" ending would match the partial name too)
GlobJuchuCsv_any_ending == { JuchuA, JuchuB, PartialA }

GlobJuchuCsv == { JuchuA, JuchuB }

Absent == -1
Sizes == 0..MaxSize
None == ""

Present(d) == { f \in FileNames : d[f] # Absent }

\* a sequence without the element f
RECURSIVE Without(_, _)
Without(q, f) ==
    IF q = << >> THEN << >>
    ELSE IF Head(q) = f THEN Without(Tail(q), f)
    ELSE << Head(q) >> \o Without(Tail(q), f)

\* the file of C modified last
Newest(C, order) ==
    order[CHOOSE i \in 1..Len(order) :
             /\ order[i] \in C
             /\ \A j \in 1..Len(order) : order[j] \in C => j <= i]

WaitIdle ==
    /\ dir = [ f \in FileNames |-> Absent ]
    /\ mtimeOrder = << >>
    /\ before = {}
    /\ last_path = None
    /\ last_size = Absent
    /\ polls = 0
    /\ wresult = "pending"
    /\ seen = [ f \in FileNames |-> << Absent, Absent >> ]
    /\ renamedAt = Absent
    /\ prev_poll = << None, Absent >>
    /\ atSnapshot = {}

\* nothing is in the destination subdirectory and nothing was moved
NoMove ==
    /\ dest_dir = [ f \in GlobJuchuCsv |-> "absent" ]
    /\ saved = "pending"

RunIdle ==
    /\ test_mode = FALSE
    /\ enable_confirmation_process = FALSE
    /\ defect = NoDefect
    /\ remaining = {}
    /\ listing = << >>
    /\ sentinel = FALSE
    /\ artifact = "none"
    /\ ready = FALSE
    /\ pc = "off"
    /\ driver = 0
    /\ procs = {}
    /\ attempt = 0
    /\ processed_orders = {}
    /\ no_new_data_count = 0
    /\ no_data_found = FALSE
    /\ target = ""
    /\ curOrder = 0
    /\ po_result = FALSE
    /\ result = "pending"
    /\ runOutcome = "pending"
    /\ setupOk = FALSE
    /\ quitCalls = 0
    /\ quitErrors = 0
    /\ exitReason = "none"
    /\ opened = EmptyBag
    /\ nProcessed = 0
    /\ csvClicks = 0
    /\ printClicks = 0
    /\ checkboxClicks = 0
    /\ confirmClicks = 0
    /\ swallowed = {}
    /\ doneOrders = {}

\* ------------------------------------------------------------ the page
\* A locator strategy is an XPath, or the keyword scan that ends a pass of
\* click_download_all_details; strategies are numbered in list order.
\* The element a strategy matches is absent, present in the document, or
\* present and clickable.
KeywordScan == SetOneSize + SetTwoSize + 1

Strategies == 1..KeywordScan

ElementStates == { "absent", "present", "clickable" }

Locators ==
    { "_find_first", "_try_click_with_xpaths", "click_download_all_details" }

Elements(pg) == { s \in Strategies : pg[s] # "absent" }

\* the strategies of a call of f with a list of n entries
StrategyCount(f, n) ==
    IF f = "click_download_all_details" THEN KeywordScan ELSE n

ScanIdle ==
    /\ grid = << >>
    /\ spc = "off"
    /\ scan_i = ScanFirst
    /\ available_links = << >>

LocIdle ==
    /\ loc_fn = "off"
    /\ xpaths = 0
    /\ page = [ s \in Strategies |-> "absent" ]
    /\ changes = 0
    /\ lpc = "off"
    /\ idx = 1
    /\ last_error = FALSE
    /\ scans = 0
    /\ lresult = "pending"
    /\ tries = << >>
    /\ used = 0

Init == RunInit /\ WaitIdle /\ NoMove /\ wpc = "off" /\ LocIdle /\ ScanIdle

InitWait ==
    RunIdle /\ WaitIdle /\ NoMove /\ wpc = "snapshot" /\ LocIdle /\ ScanIdle

\* the wait and the move that follows it: the destination subdirectory may
\* hold files of earlier runs
InitMove ==
    /\ RunIdle /\ WaitIdle /\ wpc = "snapshot" /\ LocIdle /\ ScanIdle
    /\ dest_dir \in [ GlobJuchuCsv -> { "absent", "existing" } ]
    /\ saved = "pending"

InitLocate ==
    /\ RunIdle /\ WaitIdle /\ NoMove /\ wpc = "off" /\ ScanIdle
    /\ loc_fn \in Locators
    /\ xpaths \in (IF loc_fn = "click_download_all_details"
                   THEN { SetOneSize + SetTwoSize }
                   ELSE 0..MaxStrategies)
    /\ page \in [ Strategies -> ElementStates ]
    /\ Elements(page) \subseteq 1..StrategyCount(loc_fn, xpaths)
    /\ Cardinality(Elements(page)) <= MaxElements
    /\ changes = 0
    /\ lpc = "try"
    /\ idx = 1
    /\ last_error = FALSE
    /\ scans = 0
    /\ lresult = "pending"
    /\ tries = << >>
    /\ used = 0

\* a listing page of 0..18 contiguous rows (row indices 02..19), of which at
\* most MaxHidden are hidden or disabled
RowStates == { "shown", "hidden", "disabled" }

\* the subsets of S of at most m elements
RECURSIVE SmallSubsets(_, _)
SmallSubsets(S, m) ==
    IF m = 0 THEN { {} }
    ELSE LET P == SmallSubsets(S, m - 1)
         IN  P \cup { T \cup { x } : T \in P, x \in S }

GridsOf(n) ==
    UNION { { [ k \in 1..n |-> IF k \in H THEN f[k] ELSE "shown" ] :
                f \in [ H -> RowStates \ { "shown" } ] } :
            H \in SmallSubsets(1..n, MaxHidden) }

Grids == UNION { GridsOf(n) : n \in 0..(ScanStop - ScanFirst) }

InitScan ==
    /\ RunIdle /\ WaitIdle /\ NoMove /\ wpc = "off" /\ LocIdle
    /\ grid \in Grids
    /\ spc = "scan"
    /\ scan_i = ScanFirst
    /\ available_links = << >>

\* ------------------------------------------------------- variable groups
cfgVars == << test_mode, enable_confirmation_process, defect, waitVars,
             locVars, scanVars >>
siteVars == << remaining, listing, sentinel, artifact, ready >>
drvVars == << driver, procs, quitCalls, quitErrors, setupOk >>
loopVars == << attempt, processed_orders, no_new_data_count >>
poVars == << target, curOrder, po_result >>
clickVars == << csvClicks, printClicks, checkboxClicks, confirmClicks >>

\* `return v` inside the try block of download_delivery_lists: the finally
\* clause runs next
Return(v, why) ==
    /\ result' = v
    /\ exitReason' = why
    /\ pc' = "finally"

\* ----------------------------------------------------------- setup_driver
\* prefCreate/fbCreate: webdriver.Chrome(...) succeeds on the preferred /
\* fallback path; prefCdp/fbCdp: the Page.setDownloadBehavior command does.
setup_driver(prefCreate, prefCdp, fbCreate, fbCdp) ==
    LET ok == (prefCreate /\ prefCdp) \/ (fbCreate /\ fbCdp)
        fallback == ~(prefCreate /\ prefCdp)
        \* browser processes are numbered in creation order
        first == IF prefCreate THEN {1} ELSE {}
        second == IF fallback /\ fbCreate THEN {Cardinality(first) + 1} ELSE {}
    IN  /\ procs' = first \cup second
        \* self.driver is the handle assigned last
        /\ driver' = Cardinality(first \cup second)
        /\ setupOk' = ok
        /\ IF ok
           THEN /\ pc' = "access"
                /\ UNCHANGED << result, exitReason >>
           ELSE Return("False", "session_start_failure")

Setup ==
    /\ pc = "start"
    /\ IF Fails("setup")
       THEN \E prefCreate, prefCdp, fbCreate, fbCdp \in BOOLEAN :
               /\ ~(prefCreate /\ prefCdp)
               /\ setup_driver(prefCreate, prefCdp, fbCreate, fbCdp)
       ELSE setup_driver(TRUE, TRUE, TRUE, TRUE)
    /\ UNCHANGED << cfgVars, doneOrders, swallowed, siteVars, loopVars, poVars, clickVars,
                    no_data_found, runOutcome, quitCalls, quitErrors, opened,
                    nProcessed >>

\* ---------------------------------------------------------------- cleanup
\* quitOk: driver.quit() returns normally; if it raises, the error is logged
\* (quitErrors) and the handle is dropped all the same
cleanup_keeps_handle(quitOk) ==
    IF driver # 0
    THEN /\ quitCalls' = quitCalls + 1
         /\ procs' = IF quitOk THEN procs \ {driver} ELSE procs
         /\ quitErrors' = IF quitOk THEN quitErrors ELSE quitErrors + 1
         /\ UNCHANGED driver
    ELSE UNCHANGED << quitCalls, quitErrors, procs, driver >>

\* (the handle dropped after quit() inside the try block, not in finally)
cleanup_drops_handle_after_quit(quitOk) ==
    IF driver # 0
    THEN /\ quitCalls' = quitCalls + 1
         /\ procs' = IF quitOk THEN procs \ {driver} ELSE procs
         /\ quitErrors' = IF quitOk THEN quitErrors ELSE quitErrors + 1
         /\ driver' = IF quitOk THEN 0 ELSE driver
    ELSE UNCHANGED << quitCalls, quitErrors, procs, driver >>

cleanup(quitOk) ==
    IF driver # 0
    THEN /\ quitCalls' = quitCalls + 1
         /\ procs' = IF quitOk THEN procs \ {driver} ELSE procs
         /\ quitErrors' = IF quitOk THEN quitErrors ELSE quitErrors + 1
         /\ driver' = 0
    ELSE UNCHANGED << quitCalls, quitErrors, procs, driver >>

\* -------------------------------------------- phases before the main loop
\* a phase that returns True moves on, one that returns False ends the run
Phase_result_ignored(here, next, ok) ==
    /\ pc = here
    /\ pc' = next
    /\ UNCHANGED << result, exitReason >>
    /\ UNCHANGED << cfgVars, doneOrders, swallowed, siteVars, drvVars, loopVars, poVars, clickVars,
                    no_data_found, runOutcome, opened, nProcessed >>

\* What a phase that returned True leaves of the page-ready signal.
\* access_site waits for it after driver.get; _handle_relogin_button then
\* clicks the re-login control if there is one, and waits for the signal
\* again only when it found the control by its id, not when it found it by
\* its text.  login ends with the click on the login button and a sleep.
\* select_user_and_navigate waits for the signal before and after its click.
PageReadyAfter(here) ==
    IF here = "access" THEN { TRUE, FALSE }
    ELSE IF here = "login" THEN { FALSE }
    ELSE { TRUE }

\* errors a phase catches and does not report: in login the search for error
\* texts after the click is inside `try: ... except: pass`
SwallowedIn(here) ==
    IF here = "login" /\ Fails("error_check") THEN { "error_check" } ELSE {}

Phase(here, next, ok) ==
    /\ pc = here
    /\ IF ok
       THEN /\ pc' = next
            /\ ready' \in PageReadyAfter(here)
            /\ UNCHANGED << result, exitReason >>
       ELSE /\ Return("False", "phase_failure")
            /\ UNCHANGED ready
    /\ swallowed' = IF ok THEN swallowed \cup SwallowedIn(here) ELSE swallowed
    /\ UNCHANGED << cfgVars, doneOrders, remaining, listing, sentinel, artifact, drvVars,
                    loopVars, poVars, clickVars, no_data_found, runOutcome,
                    opened, nProcessed >>

access_site == Phase("access", "login", ~Fails("access"))

login == Phase("login", "select_user", ~Fails("login"))

select_user_and_navigate ==
    Phase("select_user", "loop_head", ~Fails("select_user"))

\* ------------------------------------------------------------ the loop
\* while attempt < max_attempts: attempt += 1 ...; after the loop: return False
LoopContinues_off_by_one(a) == a <= max_attempts

\* (`while True:`)
LoopContinues_unbounded(a) == TRUE

LoopContinues(a) == a < max_attempts

LoopHead ==
    /\ pc = "loop_head"
    /\ IF LoopContinues(attempt)
       THEN /\ attempt' = attempt + 1
            /\ pc' = "navigate"
            /\ UNCHANGED << result, exitReason >>
       ELSE /\ Return("False", "round_limit")
            /\ UNCHANGED attempt
    /\ UNCHANGED << cfgVars, doneOrders, swallowed, siteVars, drvVars, processed_orders,
                    no_new_data_count, poVars, clickVars, no_data_found,
                    runOutcome, opened, nProcessed >>

\* _set_search_date: a timeout or an error is logged and nothing is returned
set_search_date(ok) ==
    IF ok THEN swallowed ELSE swallowed \cup { "set_date" }

\* navigate_to_order_list_and_search: the site renders the unconsumed orders;
\* on an empty result it may show the no-data message
navigate_to_order_list_and_search(ok) ==
    /\ pc = "navigate"
    /\ IF ok
       THEN /\ listing' = SortedSeq(remaining)
            /\ sentinel' \in (IF remaining = {} THEN BOOLEAN ELSE {FALSE})
            /\ no_data_found' = sentinel'
            /\ ready' = TRUE
            /\ swallowed' = set_search_date(~Fails("set_date"))
            /\ pc' = "check_no_data"
            /\ UNCHANGED << result, exitReason >>
       ELSE /\ Return("False", "phase_failure")
            /\ UNCHANGED << listing, sentinel, no_data_found, ready, swallowed >>
    /\ UNCHANGED << cfgVars, doneOrders, remaining, artifact, drvVars, loopVars, poVars,
                    clickVars, runOutcome, opened, nProcessed >>

Navigate == navigate_to_order_list_and_search(~Fails("navigate"))

\* check_no_data_message, and the branch of the loop on it
check_no_data_message_blind == FALSE

check_no_data_message == sentinel

CheckNoData ==
    /\ pc = "check_no_data"
    /\ IF check_no_data_message
       THEN Return("True", "sentinel")
       ELSE /\ pc' = IF attempt = 1 THEN "csv" ELSE "detail"
            /\ UNCHANGED << result, exitReason >>
    /\ UNCHANGED << cfgVars, doneOrders, swallowed, siteVars, drvVars, loopVars, poVars, clickVars,
                    no_data_found, runOutcome, opened, nProcessed >>

\* download_csv: its result is not looked at by the loop
download_csv(ok) ==
    /\ pc = "csv"
    /\ csvClicks' = IF ok THEN csvClicks + 1 ELSE csvClicks
    /\ swallowed' = IF ok THEN swallowed ELSE swallowed \cup { "csv" }
    /\ pc' = "detail"
    /\ UNCHANGED << cfgVars, doneOrders, siteVars, drvVars, loopVars, poVars, printClicks,
                    checkboxClicks, confirmClicks, no_data_found, runOutcome,
                    opened, nProcessed, result, exitReason >>

DownloadCsv == download_csv(~Fails("csv"))

\* ------------------------------------- process_order_details_and_download
\* PoOpen: wait for the detail link to be clickable and click it
\* (ok: the waits of this step end in time)
po_open(ok) ==
    /\ pc = "po_open"
    /\ IF ok /\ target \in PageIds(listing)
       THEN /\ opened' = opened (+) SetToBag({target})
            /\ curOrder' = OrderAt(listing, target)
            /\ artifact' = "none"
            /\ ready' = TRUE
            /\ pc' = "po_print"
            /\ UNCHANGED po_result
       ELSE /\ po_result' = FALSE
            /\ pc' = "po_done"
            /\ UNCHANGED << opened, curOrder, artifact, ready >>
    /\ UNCHANGED << cfgVars, doneOrders, swallowed, remaining, listing, sentinel, drvVars, loopVars,
                    target, clickVars, no_data_found, runOutcome, nProcessed,
                    result, exitReason >>

PoOpen == po_open(~Fails("detail_link"))

\* PoPrint: choose the print kind, click the print button, sleep 5 s.
\* arrived: the document is complete in the download directory after the sleep
po_print(ok, arrived) ==
    /\ pc = "po_print"
    /\ IF ok
       THEN /\ printClicks' = printClicks + 1
            /\ artifact' = IF arrived THEN "complete" ELSE "missing"
            /\ pc' = "po_confirm"
            /\ UNCHANGED po_result
       ELSE /\ po_result' = FALSE
            /\ pc' = "po_done"
            /\ UNCHANGED << printClicks, artifact >>
    /\ UNCHANGED << cfgVars, doneOrders, swallowed, remaining, listing, sentinel, ready, drvVars, loopVars,
                    target, curOrder, csvClicks, checkboxClicks, confirmClicks,
                    no_data_found, runOutcome, opened, nProcessed, result,
                    exitReason >>

PoPrint == po_print(~Fails("print"), ~Fails("download"))

\* PoConfirm: the confirmation block (checkbox, then confirm button), run only
\* when enable_confirmation_process is set; the order is consumed on the
\* server by the confirm click, which submits the page (a sleep follows, no
\* wait for the page-ready signal)
po_confirm_ignores_flag(cbOk, btnOk) ==
    /\ pc = "po_confirm"
    /\ checkboxClicks' = IF cbOk THEN checkboxClicks + 1 ELSE checkboxClicks
    /\ confirmClicks' = IF cbOk /\ btnOk THEN confirmClicks + 1 ELSE confirmClicks
    /\ remaining' = IF cbOk /\ btnOk THEN remaining \ {curOrder} ELSE remaining
    /\ po_result' = (cbOk /\ btnOk)
    /\ ready' = IF cbOk /\ btnOk THEN FALSE ELSE ready
    /\ pc' = "po_done"
    /\ UNCHANGED << cfgVars, doneOrders, swallowed, listing, sentinel, artifact, drvVars, loopVars,
                    target, curOrder, csvClicks, printClicks, no_data_found,
                    runOutcome, opened, nProcessed, result, exitReason >>

po_confirm(cbOk, btnOk) ==
    /\ pc = "po_confirm"
    /\ IF enable_confirmation_process
       THEN /\ checkboxClicks' = IF cbOk THEN checkboxClicks + 1 ELSE checkboxClicks
            /\ confirmClicks' = IF cbOk /\ btnOk THEN confirmClicks + 1 ELSE confirmClicks
            /\ remaining' = IF cbOk /\ btnOk THEN remaining \ {curOrder} ELSE remaining
            /\ po_result' = (cbOk /\ btnOk)
            /\ ready' = IF cbOk /\ btnOk THEN FALSE ELSE ready
       ELSE /\ po_result' = TRUE
            /\ UNCHANGED << checkboxClicks, confirmClicks, remaining, ready >>
    /\ pc' = "po_done"
    /\ UNCHANGED << cfgVars, doneOrders, swallowed, listing, sentinel, artifact, drvVars, loopVars,
                    target, curOrder, csvClicks, printClicks, no_data_found,
                    runOutcome, opened, nProcessed, result, exitReason >>

PoConfirm == po_confirm(~Fails("checkbox"), ~Fails("confirm_button"))

\* --------------------------------------------- the loop body after the CSV
\* test mode: a round that processed nothing new counts towards the stall
\* threshold; otherwise the processed-count limit is looked at
StallOrContinue(count, done) ==
    /\ no_new_data_count' = count
    /\ processed_orders' = done
    /\ IF count >= StallThreshold
       THEN Return("True", "stalled")
       ELSE IF test_mode /\ Cardinality(done) >= TestModeLimit
       THEN Return("True", "processed_limit")
       ELSE /\ pc' = "loop_head"
            /\ UNCHANGED << result, exitReason >>

\* the link the round works on: in test mode the first available link that
\* is not in processed_orders, otherwise the default (first row) link
Detail ==
    /\ pc = "detail"
    /\ IF test_mode
       THEN LET links == get_available_order_links(listing)
                new == FirstNew(links, processed_orders)
            IN  IF links = << >>
                THEN /\ Return("True", "no_links")
                     /\ UNCHANGED << target, no_new_data_count, processed_orders >>
                ELSE IF new = ""
                THEN /\ StallOrContinue(no_new_data_count + 1, processed_orders)
                     /\ UNCHANGED target
                ELSE /\ target' = new
                     /\ pc' = "po_open"
                     /\ UNCHANGED << result, exitReason, no_new_data_count,
                                     processed_orders >>
       ELSE /\ target' = DefaultLinkId
            /\ pc' = "po_open"
            /\ UNCHANGED << result, exitReason, no_new_data_count,
                            processed_orders >>
    /\ UNCHANGED << cfgVars, doneOrders, swallowed, siteVars, drvVars, attempt, curOrder, po_result,
                    clickVars, no_data_found, runOutcome, opened, nProcessed >>

\* _navigate_back_to_order_list: driver.back(), then the wait for the
\* page-ready signal; its errors are caught and its result is not looked at.
\* The value is the page-ready signal after the call.
navigate_back_to_order_list(ok) == ok

\* what the loop does with the result of process_order_details_and_download
AfterProcess ==
    /\ pc = "po_done"
    /\ nProcessed' = IF po_result THEN nProcessed + 1 ELSE nProcessed
    /\ doneOrders' = IF po_result THEN doneOrders \cup { curOrder } ELSE doneOrders
    /\ ready' = IF test_mode /\ po_result
                THEN navigate_back_to_order_list(~Fails("back_nav"))
                ELSE ready
    /\ swallowed' = IF test_mode /\ po_result /\ Fails("back_nav")
                    THEN swallowed \cup { "back_nav" }
                    ELSE swallowed
    /\ IF test_mode
       THEN IF po_result
            THEN StallOrContinue(0, processed_orders \cup {target})
            ELSE StallOrContinue(no_new_data_count + 1, processed_orders)
       ELSE /\ IF po_result
               THEN /\ pc' = "loop_head"
                    /\ UNCHANGED << result, exitReason >>
               ELSE Return("False", "phase_failure")
            /\ UNCHANGED << no_new_data_count, processed_orders >>
    /\ UNCHANGED << cfgVars, remaining, listing, sentinel, artifact, drvVars,
                    attempt, poVars, clickVars, no_data_found, runOutcome,
                    opened >>

\* ------------------------------------------------- leaving the try block
\* an unexpected exception in a phase: except Exception -> return False
Raise ==
    /\ pc \in { "access", "login", "select_user", "loop_head", "navigate",
                "check_no_data", "csv", "detail", "po_open", "po_print",
                "po_confirm", "po_done" }
    /\ Return("False", "exception")
    /\ UNCHANGED << cfgVars, doneOrders, swallowed, siteVars, drvVars, loopVars, poVars, clickVars,
                    no_data_found, runOutcome, opened, nProcessed >>

\* finally: self.cleanup(), then the result reaches the caller
Finally ==
    /\ pc = "finally"
    /\ \E quitOk \in BOOLEAN : cleanup(quitOk)
    /\ pc' = "returned"
    /\ UNCHANGED << cfgVars, doneOrders, swallowed, siteVars, loopVars, poVars, clickVars,
                    no_data_found, runOutcome, setupOk, exitReason, opened,
                    nProcessed, result >>

\* DeliveryListProcessor.run: phase 1 failed / no-data notification / the
\* downstream phases; its finally clause calls scraper.cleanup()
RunOutcome_ignores_no_data(res, noData) ==
    IF res = "False" THEN "failed" ELSE "extraction"

RunOutcome(res, noData) ==
    IF res = "False" THEN "failed"
    ELSE IF noData THEN "no_data"
    ELSE "extraction"

run ==
    /\ pc = "returned"
    /\ runOutcome' = RunOutcome(result, no_data_found)
    /\ \E quitOk \in BOOLEAN : cleanup(quitOk)
    /\ pc' = "finished"
    /\ UNCHANGED << cfgVars, doneOrders, swallowed, siteVars, loopVars, poVars, clickVars,
                    no_data_found, setupOk, exitReason, opened, nProcessed,
                    result >>

Next ==
    \/ Setup
    \/ access_site
    \/ login
    \/ select_user_and_navigate
    \/ LoopHead
    \/ Navigate
    \/ CheckNoData
    \/ DownloadCsv
    \/ Detail
    \/ PoOpen
    \/ PoPrint
    \/ PoConfirm
    \/ AfterProcess
    \/ Raise
    \/ Finally
    \/ run

Spec == Init /\ [][Next]_vars

\* ======================================= _get_available_order_links
\* the row of the page whose link has the identifier id (0: no such element)
RowOf(g, id) ==
    IF \E k \in 1..Len(g) : SiteRowId(k + 1) = id
    THEN CHOOSE k \in 1..Len(g) : SiteRowId(k + 1) = id
    ELSE 0

\* one pass of `for i in range(2, 20)`: find_element by the generated id;
\* NoSuchElementException ends the loop; an element that is displayed and
\* enabled is appended; the end of the range ends the loop
scan_row ==
    /\ spc = "scan"
    /\ IF scan_i >= ScanStop \/ RowOf(grid, LinkId(scan_i)) = 0
       THEN /\ spc' = "done"
            /\ UNCHANGED << scan_i, available_links >>
       ELSE /\ available_links' =
                   IF grid[RowOf(grid, LinkId(scan_i))] = "shown"
                   THEN Append(available_links, LinkId(scan_i))
                   ELSE available_links
            /\ scan_i' = scan_i + 1
            /\ UNCHANGED spc
    /\ UNCHANGED << grid, runVars, waitVars, locVars >>

NextScan == scan_row

SpecScan == InitScan /\ [][NextScan]_vars

\* ================================== the download completion detector
\* the file system: a file is created or its size changes
FsWrite(f, sz) ==
    /\ wpc \in { "snapshot", "polling" }
    /\ dir[f] # sz
    /\ dir' = [ dir EXCEPT ![f] = sz ]
    /\ mtimeOrder' = Append(Without(mtimeOrder, f), f)
    /\ UNCHANGED << before, wpc, last_path, last_size, polls, wresult, seen,
                    renamedAt, prev_poll, atSnapshot, runVars,
                    locVars, moveVars, scanVars >>

\* the browser renames a finished partial download to its final name
\* (the modification time stays)
FsRename ==
    /\ wpc \in { "snapshot", "polling" }
    /\ dir[PartialA] # Absent
    /\ dir' = [ dir EXCEPT ![PartialA] = Absent, ![JuchuA] = dir[PartialA] ]
    /\ mtimeOrder' = [ i \in 1..Len(Without(mtimeOrder, JuchuA)) |->
                         IF Without(mtimeOrder, JuchuA)[i] = PartialA
                         THEN JuchuA
                         ELSE Without(mtimeOrder, JuchuA)[i] ]
    /\ renamedAt' = IF renamedAt = Absent /\ seen[JuchuA] = << Absent, Absent >>
                    THEN polls
                    ELSE renamedAt
    /\ UNCHANGED << before, wpc, last_path, last_size, polls, wresult, seen,
                    prev_poll, atSnapshot, runVars,
                    locVars, moveVars, scanVars >>

\* a file is removed
FsDelete(f) ==
    /\ wpc \in { "snapshot", "polling" }
    /\ dir[f] # Absent
    /\ dir' = [ dir EXCEPT ![f] = Absent ]
    /\ mtimeOrder' = Without(mtimeOrder, f)
    /\ UNCHANGED << before, wpc, last_path, last_size, polls, wresult, seen,
                    renamedAt, prev_poll, atSnapshot, runVars,
                    locVars, moveVars, scanVars >>

\* _snapshot_existing_csv: the names matching "*.csv" that are present;
\* listed: the listing of the directory does not raise (if it does, the
\* error is swallowed and the empty set is returned)
snapshot_existing_csv(listed) ==
    IF listed THEN Present(dir) \cap GlobCsv ELSE {}

\* the snapshot click_download_all_details takes before it looks for the
\* button
TakeSnapshot(listed) ==
    /\ wpc = "snapshot"
    /\ before' = snapshot_existing_csv(listed)
    /\ atSnapshot' = Present(dir) \cap GlobCsv
    /\ wpc' = "polling"
    /\ UNCHANGED << dir, mtimeOrder, last_path, last_size, polls, wresult, seen,
                    renamedAt, prev_poll, runVars,
                    locVars, moveVars, scanVars >>

Snapshot == TakeSnapshot(TRUE)

\* the listing of the directory raises (an OSError of scandir)
SnapshotRaises == TakeSnapshot(FALSE)

\* the candidates of a poll
Candidates == { f \in Present(dir) \cap GlobJuchuCsv : f \notin before }

\* the test that ends the wait
Stable_same_path_only(path, size) == last_path # None /\ path = last_path

Stable(path, size) == last_path # None /\ path = last_path /\ last_size = size

\* one iteration of the loop of _wait_for_new_csv
wait_poll ==
    /\ wpc = "polling"
    /\ polls < MaxPolls
    /\ polls' = polls + 1
    /\ IF Candidates # {}
       THEN LET path == Newest(Candidates, mtimeOrder)
                size == dir[path]
            IN  /\ seen' = [ seen EXCEPT ![path] = << seen[path][2], size >> ]
                /\ IF Stable(path, size)
                   THEN /\ wresult' = path
                        /\ wpc' = "done"
                        /\ UNCHANGED << last_path, last_size, prev_poll >>
                   ELSE /\ last_path' = path
                        /\ last_size' = size
                        /\ prev_poll' = << path, size >>
                        /\ UNCHANGED << wresult, wpc >>
       ELSE /\ prev_poll' = << None, Absent >>
            /\ UNCHANGED << seen, wresult, wpc, last_path, last_size >>
    /\ UNCHANGED << dir, mtimeOrder, before, atSnapshot, renamedAt, runVars,
                    locVars, moveVars, scanVars >>

\* the timeout: the loop ends and None is returned
wait_timeout ==
    /\ wpc = "polling"
    /\ polls >= MaxPolls
    /\ wresult' = None
    /\ wpc' = "done"
    /\ UNCHANGED << dir, mtimeOrder, before, last_path, last_size, polls, seen,
                    renamedAt, prev_poll, atSnapshot, runVars,
                    locVars, moveVars, scanVars >>

NextWait ==
    \/ \E f \in FileNames, sz \in Sizes : FsWrite(f, sz)
    \/ FsRename
    \/ \E f \in FileNames : FsDelete(f)
    \/ Snapshot
    \/ wait_poll
    \/ wait_timeout

\* the wait after a snapshot that has listed the directory (what the wait
\* does depends on `before` and on the directory only)
SpecWait == InitWait /\ [][NextWait]_vars

\* the same with the error branch of the snapshot
NextSnapshot ==
    \/ NextWait
    \/ SnapshotRaises

SpecSnapshot == InitWait /\ [][NextSnapshot]_vars

\* click_download_all_details after the wait: no file, False is returned;
\* else the file is moved into the destination subdirectory with
\* Path.replace, which puts the file in the place of a file of the same
\* name; if the move raises the file stays where it is; True is returned.
\* mkdir(exist_ok=True) has made the subdirectory.
\* replaced: Path.replace does not raise
move_to_subdir(replaced) ==
    /\ wpc = "done"
    /\ wpc' = "returned"
    /\ IF wresult = None
       THEN /\ saved' = "False"
            /\ UNCHANGED << dir, mtimeOrder, dest_dir >>
       ELSE /\ saved' = "True"
            /\ IF replaced
               THEN /\ dest_dir' = [ dest_dir EXCEPT ![wresult] = "downloaded" ]
                    /\ dir' = [ dir EXCEPT ![wresult] = Absent ]
                    /\ mtimeOrder' = Without(mtimeOrder, wresult)
               ELSE UNCHANGED << dir, mtimeOrder, dest_dir >>
    /\ UNCHANGED << before, last_path, last_size, polls, wresult, seen,
                    renamedAt, prev_poll, atSnapshot, runVars, locVars,
                    scanVars >>

NextMove ==
    \/ NextWait
    \/ \E replaced \in BOOLEAN : move_to_subdir(replaced)

SpecMove == InitMove /\ [][NextMove]_vars


\* ======================================================== the locators
\* the page changes while a locator waits: an element appears, becomes
\* clickable, is covered or goes away
PageChange(s, st) ==
    /\ lpc = "try"
    /\ changes < MaxChanges
    /\ s \in 1..StrategyCount(loc_fn, xpaths)
    /\ page[s] # st
    /\ page' = [ page EXCEPT ![s] = st ]
    /\ Cardinality(Elements(page')) <= MaxElements
    /\ changes' = changes + 1
    /\ UNCHANGED << loc_fn, xpaths, lpc, idx, last_error, scans, lresult, tries,
                    used, runVars, waitVars,
                    scanVars >>

\* the try of strategy s by locator f ends without exception:
\*   _find_first waits for presence_of_element_located;
\*   _try_click_with_xpaths waits for element_to_be_clickable and clicks;
\*   the keyword scan clicks, by script, the first node with a keyword
Resolves(f, s, pg) ==
    IF f = "_find_first" THEN pg[s] # "absent"
    ELSE IF f = "click_download_all_details" /\ s = KeywordScan
    THEN pg[s] # "absent"
    ELSE pg[s] = "clickable"

\* `for xp in xpaths`: the entry after entry i
NextStrategy_skips_one(i) == i + 2

NextStrategy(i) == i + 1

\* one try of the strategy at idx: on success the locator ends with value
\* found, on failure it goes on with the next entry
TryStrategy(found) ==
    IF Resolves(loc_fn, idx, page)
    THEN /\ tries' = Append(tries, << idx, TRUE >>)
         /\ used' = idx
         /\ lresult' = found
         /\ lpc' = "done"
         /\ UNCHANGED << idx, last_error >>
    ELSE /\ tries' = Append(tries, << idx, FALSE >>)
         /\ last_error' = TRUE
         /\ idx' = NextStrategy(idx)
         /\ UNCHANGED << used, lresult, lpc >>

\* _find_first: the loop over the xpaths, then `if last_error: raise
\* last_error`, then `return None`
find_first ==
    /\ loc_fn = "_find_first"
    /\ lpc = "try"
    /\ IF idx <= xpaths
       THEN TryStrategy("element")
       ELSE /\ lresult' = IF last_error THEN "raised" ELSE "None"
            /\ lpc' = "done"
            /\ UNCHANGED << idx, last_error, tries, used >>
    /\ UNCHANGED << loc_fn, xpaths, page, changes, scans, runVars, waitVars,
                    scanVars >>

\* _try_click_with_xpaths: the loop over the xpaths, then `return False`
try_click_with_xpaths ==
    /\ loc_fn = "_try_click_with_xpaths"
    /\ lpc = "try"
    /\ IF idx <= xpaths
       THEN TryStrategy("True")
       ELSE /\ lresult' = "False"
            /\ lpc' = "done"
            /\ UNCHANGED << idx, last_error, tries, used >>
    /\ UNCHANGED << loc_fn, xpaths, page, changes, scans, runVars, waitVars,
                    scanVars >>

\* click_download_all_details, the polling for the button: a pass tries the
\* xpaths of the first set, those of the second set and the keyword scan;
\* a pass without click is followed by a sleep and, before the deadline, by
\* another pass from the first strategy; after the deadline: return False
click_download_all_details ==
    /\ loc_fn = "click_download_all_details"
    /\ lpc = "try"
    /\ IF idx <= KeywordScan
       THEN /\ TryStrategy("clicked")
            /\ UNCHANGED scans
       ELSE /\ scans' = scans + 1
            /\ IF scans + 1 < MaxScans
               THEN /\ idx' = 1
                    /\ UNCHANGED << lresult, lpc >>
               ELSE /\ lresult' = "False"
                    /\ lpc' = "done"
                    /\ UNCHANGED idx
            /\ UNCHANGED << last_error, tries, used >>
    /\ UNCHANGED << loc_fn, xpaths, page, changes, runVars, waitVars,
                    scanVars >>

NextLocate ==
    \/ \E s \in Strategies, st \in ElementStates : PageChange(s, st)
    \/ find_first
    \/ try_click_with_xpaths
    \/ click_download_all_details

SpecLocate == InitLocate /\ [][NextLocate]_vars

\* ================================================================ claims
\* the run has handed its result to the caller
Ended == pc \in { "returned", "finished" }

\* some phase reported failure or raised
PhaseFailed ==
    exitReason \in { "phase_failure", "exception", "session_start_failure" }

\* no phase failed or raised so far, and nothing in the environment is broken
AllPhasesSucceed == defect = NoDefect /\ exitReason # "exception"

\* C1: in every run in which setup_driver succeeds, driver.quit is invoked
\* exactly once before the result is returned (no quit before the finally
\* clause), on every exit path, and the caller's later cleanup() does not
\* invoke it again.
C1_QuitExactlyOnce ==
    setupOk => (IF Ended THEN quitCalls = 1 ELSE quitCalls = 0)

C1_Witness ==
    /\ pc = "finished" /\ setupOk /\ quitCalls = 1
    /\ exitReason = "exception" /\ attempt = 2

\* C2: confirmation disabled, test mode, the listing always shows the same K
\* >= 1 rows, no sentinel, every processing succeeds: each of the K row
\* identifiers is processed exactly once, one per round, and the run returns
\* success when the stall counter reaches the threshold, within the round
\* limit.
C2_EachRowOnceThenStall ==
    ( /\ test_mode /\ ~enable_confirmation_process /\ AllPhasesSucceed
      /\ Ended /\ remaining # {} )
    => /\ result = "True"
       /\ exitReason = "stalled"
       /\ BagToSet(opened) = PageIds(listing)
       /\ \A id \in BagToSet(opened) : CopiesIn(id, opened) = 1
       /\ nProcessed = Cardinality(remaining)
       /\ attempt = Cardinality(remaining) + StallThreshold
       /\ attempt <= max_attempts

\* C3: confirmation enabled, no client-side tracking, every phase succeeds:
\* the run returns success in the round in which the listing first shows the
\* sentinel, not earlier, having processed one order in each round before it.
C3_SuccessAtSentinelRound ==
    ( ~test_mode /\ enable_confirmation_process /\ AllPhasesSucceed )
    => /\ (result = "True" => sentinel /\ nProcessed = attempt - 1)
       /\ (sentinel /\ Ended =>
              result = "True" /\ exitReason = "sentinel"
                  /\ nProcessed = attempt - 1)
       /\ (sentinel => attempt <= max_attempts)

C3_Witness ==
    /\ ~test_mode /\ enable_confirmation_process /\ AllPhasesSucceed
    /\ pc = "finished" /\ result = "True" /\ sentinel
    /\ attempt = 4 /\ nProcessed = 3

C5_NoDataOnFirstRound ==
    ( sentinel /\ attempt = 1 /\ exitReason # "exception" )
    => /\ opened = EmptyBag /\ nProcessed = 0
       /\ csvClicks = 0 /\ printClicks = 0
       /\ checkboxClicks = 0 /\ confirmClicks = 0
       /\ no_data_found
       /\ (Ended => result = "True")
       /\ (pc = "finished" => runOutcome = "no_data")

C5_Witness ==
    /\ sentinel /\ attempt = 1 /\ pc = "finished"
    /\ runOutcome = "no_data" /\ result = "True"

\* C6: if no completed artifact appears after the download trigger was
\* clicked, process_order_details_and_download does not report success for
\* the order, and the run ends in failure.
C6_MissingArtifactFails ==
    /\ (pc = "po_done" /\ artifact = "missing" => ~po_result)
    /\ (Ended /\ artifact = "missing" => result = "False")

\* C7: an order is confirmed (consumed on the server) only after its
\* downloaded artifact was observed complete.
C7_ConfirmOnlyAfterArtifact ==
    (curOrder # 0 /\ curOrder \notin remaining) => artifact = "complete"

\* C8: with confirmation disabled, in either test mode, no row identifier is
\* opened for detail processing more than once in a run.
C8_NoReprocessing ==
    ~enable_confirmation_process
    => \A id \in BagToSet(opened) : CopiesIn(id, opened) <= 1

\* what the caller can see of a finished download_delivery_lists: its return
\* value and the scraper's no_data_found attribute
Report == << result, no_data_found >>

PhaseFailureReport == << "False", FALSE >>

\* C9: the result reported when the round limit is reached differs from the
\* result reported when a phase fails.
C9_AbortedDistinctFromPhaseFailure ==
    Ended =>
        /\ (exitReason = "phase_failure" => Report = PhaseFailureReport)
        /\ (exitReason = "round_limit" => Report # PhaseFailureReport)

\* C10: _wait_for_new_csv returns a file only if the last two size
\* observations it made of that file are equal.
C10_ReturnedFileStable ==
    wresult \notin { "pending", None }
    => /\ seen[wresult][1] # Absent
       /\ seen[wresult][1] = seen[wresult][2]

C10_Witness ==
    /\ wresult = JuchuB
    /\ seen[JuchuB] = << 1, 1 >>
    /\ seen[JuchuA] = << Absent, 0 >>
    /\ polls = MaxPolls

\* C11: a download that first shows under its partial name (the final name
\* with a suffix appended) and gets its final name later: _wait_for_new_csv
\* never takes the suffixed path as a candidate and never returns it, and it
\* returns the final name only after two polls made after the rename have
\* read the same size on the final name.
C11_PartialNeverReturned ==
    /\ wresult # PartialA
    /\ last_path # PartialA
    /\ (renamedAt # Absent /\ wresult = JuchuA)
       => /\ polls >= renamedAt + 2
          /\ seen[JuchuA][1] # Absent
          /\ seen[JuchuA][1] = seen[JuchuA][2]

\* the partial file is there during two polls, is renamed, and two more
\* polls read the final name
C11_Witness ==
    /\ wresult = JuchuA
    /\ renamedAt = 2
    /\ polls = 4
    /\ seen[JuchuA] = << 1, 1 >>
    /\ dir[JuchuB] = Absent
    /\ before = {}

\* C19: _wait_for_new_csv never returns a zero-byte file: size 0 read at two
\* consecutive polls is not taken as stable.
C19_NoZeroByteFile ==
    wresult \notin { "pending", None }
    => /\ last_size # 0
       /\ dir[wresult] # 0

\* C20: _wait_for_new_csv returns a file only if the poll immediately before
\* the returning one has observed that same file as the newest candidate with
\* the same size; a poll without candidates in between breaks the sequence.
C20_StableOnConsecutivePolls ==
    wresult \notin { "pending", None }
    => prev_poll = << wresult, dir[wresult] >>

\* position of a control point in the order of the phases: driver start,
\* site access, login, user selection, the listing loop, the way out
InLoop ==
    { "loop_head", "navigate", "check_no_data", "csv", "detail", "po_open",
      "po_print", "po_confirm", "po_done" }

PhaseRank(p) ==
    CASE p = "start" -> 0
      [] p = "access" -> 1
      [] p = "login" -> 2
      [] p = "select_user" -> 3
      [] p \in InLoop -> 4
      [] p = "finally" -> 5
      [] p = "returned" -> 6
      [] p = "finished" -> 7

\* what the loop phases do: rounds, searches, detail openings, downloads,
\* confirmations
LoopActions ==
    << attempt, listing, opened, nProcessed, csvClicks, printClicks,
       checkboxClicks, confirmClicks, remaining >>

NoLoopAction ==
    /\ attempt = 0 /\ listing = << >> /\ opened = EmptyBag /\ nProcessed = 0
    /\ csvClicks = 0 /\ printClicks = 0
    /\ checkboxClicks = 0 /\ confirmClicks = 0

\* the pre-loop phase of kind k, at control point here, reports failure: the
\* run is in that phase or before it, or on its way out with result False
StopsAtPhase(k, here) ==
    Fails(k) =>
        /\ \/ PhaseRank(pc) <= PhaseRank(here)
           \/ PhaseRank(pc) >= PhaseRank("finally")
        /\ NoLoopAction
        /\ (PhaseRank(pc) >= PhaseRank("finally") => result = "False")

\* C14: the phases run in the order driver start, site access, login, user
\* selection, listing loop, each phase before the loop is left for a later
\* one and never entered again; when access_site, login,
\* select_user_and_navigate or navigate_to_order_list_and_search reports
\* failure the run ends with result False and no action of a later phase
\* (search, detail open, download, confirm, another round) is made.
C14_PhaseOrderAndFailure ==
    /\ [] /\ StopsAtPhase("access", "access")
          /\ StopsAtPhase("login", "login")
          /\ StopsAtPhase("select_user", "select_user")
          /\ Fails("navigate") =>
                /\ pc \in { "navigate", "finally", "returned", "finished" }
                /\ (pc # "navigate" => result = "False")
    /\ [][ /\ PhaseRank(pc') >= PhaseRank(pc)
           /\ (PhaseRank(pc) < PhaseRank("loop_head")
                  => PhaseRank(pc') > PhaseRank(pc))
           /\ (PhaseRank(pc) >= PhaseRank("finally")
                  => UNCHANGED LoopActions) ]_vars

\* the search of round 2 fails after one order was processed in round 1
C14_Witness ==
    /\ pc = "finished" /\ result = "False" /\ exitReason = "phase_failure"
    /\ defect.kind = "navigate" /\ defect.from = 2
    /\ attempt = 2 /\ nProcessed = 1

\* C15: in test mode as in production mode, when the processing of an order
\* fails because a control it needs is not found in time, the run ends with
\* result False at once: no further round is started and success is not
\* returned.
C15_DetailFailureEndsRun ==
    [][ (pc = "po_done" /\ ~po_result)
           => (pc' = "finally" /\ result' = "False") ]_vars

\* the control points at which cleanup() is called next: the finally clause
\* of download_delivery_lists and the one of DeliveryListProcessor.run
BeforeCleanup == { "finally", "returned" }

\* what a call of cleanup() may do, seen from its caller
CleanupReturns ==
    /\ pc' = (IF pc = "finally" THEN "returned" ELSE "finished")
    /\ result' = result
    /\ driver' = 0
    /\ IF driver = 0
       THEN UNCHANGED << quitCalls, quitErrors, procs >>
       ELSE /\ quitCalls' = quitCalls + 1
            /\ \/ procs' = procs \ {driver} /\ quitErrors' = quitErrors
               \/ procs' = procs /\ quitErrors' = quitErrors + 1

\* C16: cleanup never raises: the result of the run reaches the caller
\* unchanged whether or not driver.quit raises; a quit that raises is logged
\* and swallowed; the driver handle is None after every cleanup; a cleanup
\* that finds no driver does nothing.
C16_CleanupNeverRaises ==
    /\ [] ( Ended => /\ driver = 0
                     /\ result \in { "True", "False" }
                     /\ quitErrors <= quitCalls )
    /\ [][ (pc \in BeforeCleanup) => CleanupReturns ]_vars

\* quit has raised in the finally clause of a successful run
C16_Witness ==
    /\ pc = "finished" /\ result = "True"
    /\ quitCalls = 1 /\ quitErrors = 1
    /\ driver = 0 /\ procs = {1}

\* C17: at every point of a run at most one browser process created by the
\* engine is live, and once the run has ended (its quit not having raised)
\* none is left running; this includes the run in which the preferred driver
\* is created, the download-behaviour command fails and the fallback creates
\* a second driver.
C17_AtMostOneBrowser ==
    /\ Cardinality(procs) <= 1
    /\ (Ended /\ quitErrors = 0) => procs = {}

\* steps left in a round, from the control point p of the loop body
StepsLeftInRound(p) ==
    CASE p = "navigate" -> 8
      [] p = "check_no_data" -> 7
      [] p = "csv" -> 6
      [] p = "detail" -> 5
      [] p = "po_open" -> 4
      [] p = "po_print" -> 3
      [] p = "po_confirm" -> 2
      [] p = "po_done" -> 1
      [] p = "loop_head" -> 0

\* the steps of a whole round, the one of the loop head included
RoundSteps == StepsLeftInRound("navigate") + 1

\* an upper bound of the steps the run can still take
StepsLeft ==
    CASE pc = "finished" -> 0
      [] pc = "returned" -> 1
      [] pc = "finally" -> 2
      [] pc \in InLoop ->
            3 + (max_attempts - attempt) * RoundSteps + StepsLeftInRound(pc)
      [] OTHER ->
            3 + max_attempts * RoundSteps + (PhaseRank("loop_head") - PhaseRank(pc))

\* C18: every run of download_delivery_lists terminates, in test mode and in
\* production mode, whatever the site shows: it never starts more than
\* max_attempts (50) rounds, and every step brings the end nearer: the
\* number of steps left is a natural number that decreases with every step,
\* so that no run has infinitely many steps (each step, a bounded wait, ends).
C18_Terminates ==
    /\ [] (attempt <= max_attempts)
    /\ [] (StepsLeft >= 0)
    /\ [][ StepsLeft' < StepsLeft ]_vars

\* 50 rounds on rows that never change: the sentinel never shows, nothing is
\* confirmed, every round processes the first row again
C18_Witness ==
    /\ pc = "finished" /\ attempt = max_attempts
    /\ ~test_mode /\ ~enable_confirmation_process
    /\ exitReason = "round_limit" /\ Cardinality(remaining) = 1

\* the first strategy of the list, in list order, that resolves on page pg
\* (0 if none does)
FirstResolving(f, n, pg) ==
    IF \E s \in 1..StrategyCount(f, n) : Resolves(f, s, pg)
    THEN CHOOSE s \in 1..StrategyCount(f, n) :
            /\ Resolves(f, s, pg)
            /\ \A t \in 1..(s - 1) : ~Resolves(f, t, pg)
    ELSE 0

\* C12: for every ordered list of strategies, the locator (_find_first,
\* _try_click_with_xpaths, the polling of click_download_all_details) takes
\* the first strategy, in list order, that resolves: every strategy before
\* it was tried in the same pass, in list order, and did not resolve, no
\* strategy is tried after it, whatever later strategies would match; on a
\* page that does not change it is the first of the strategies that resolve.
C12_FirstResolvingStrategy ==
    /\ used # 0 =>
          /\ lpc = "done"
          /\ Len(tries) >= used
          /\ tries[Len(tries)] = << used, TRUE >>
          /\ \A k \in 1..(used - 1) :
                tries[Len(tries) - used + k] = << k, FALSE >>
    /\ \A i \in 1..(Len(tries) - 1) : ~tries[i][2]
    /\ (lpc = "done" /\ changes = 0)
          => used = FirstResolving(loc_fn, xpaths, page)

\* the second of three xpaths is taken although the third matches as well
C12_Witness ==
    /\ loc_fn = "_try_click_with_xpaths" /\ xpaths = 3
    /\ lpc = "done" /\ used = 2
    /\ page[1] = "absent" /\ page[2] = "clickable" /\ page[3] = "clickable"
    /\ tries = << << 1, FALSE >>, << 2, TRUE >> >>

\* C13: when no strategy of the list resolves, the locator (_find_first,
\* _try_click_with_xpaths) returns a not-found value to its caller and does
\* not raise.
C13_NotFoundIsReturned ==
    ( /\ loc_fn \in { "_find_first", "_try_click_with_xpaths" }
      /\ lpc = "done" /\ used = 0 )
    => lresult \in { "None", "False" }

\* C21: _wait_for_new_csv never returns a file whose name was in the
\* download directory when _snapshot_existing_csv was called: only a file
\* matching the name pattern that appeared after the snapshot is returned.
C21_SnapshotExcluded ==
    wresult \notin { "pending", None }
    => /\ wresult \in GlobJuchuCsv
       /\ wresult \notin atSnapshot

\* C22: when the file the wait returned is moved into the destination
\* subdirectory and a file of the same name is there already, the file that
\* is there is kept as it was (nothing is written over it).
C22_ExistingFileKept ==
    [][ ( /\ wpc = "done"
          /\ wpc' = "returned"
          /\ wresult # None
          /\ dest_dir[wresult] = "existing" )
        => dest_dir'[wresult] = "existing" ]_vars


\* rows of the listing whose link is not in the processed set
UnprocessedRows == { k \in 1..Len(listing) : SiteRowId(k + 1) \notin processed_orders }

InOrder == pc \in { "po_open", "po_print", "po_confirm", "po_done" }

ConfirmStep == pc = "po_confirm" /\ pc' = "po_done"

\* C24: with the confirmation disabled no confirmation checkbox and no
\* confirm button is ever clicked and process_order_details_and_download
\* reports success right after the download trigger; with the confirmation
\* enabled it reports success only after the confirm button was clicked.
C24_ConfirmationFlag ==
    /\ [] ( ~enable_confirmation_process
            => checkboxClicks = 0 /\ confirmClicks = 0 )
    /\ [] ( enable_confirmation_process => nProcessed <= confirmClicks )
    /\ [][ ConfirmStep
           => IF enable_confirmation_process
              THEN po_result' => /\ confirmClicks' = confirmClicks + 1
                                 /\ checkboxClicks' = checkboxClicks + 1
              ELSE /\ po_result'
                   /\ UNCHANGED << checkboxClicks, confirmClicks, remaining >>
         ]_vars
    /\ [] ( pc = "po_done" /\ po_result
            => /\ printClicks >= 1
               /\ enable_confirmation_process => confirmClicks >= 1 )

\* the second order of a run was confirmed and reported as processed
C24_Witness ==
    /\ enable_confirmation_process
    /\ pc = "po_done"
    /\ po_result
    /\ confirmClicks = 2
    /\ checkboxClicks = 2

\* a step that begins with a control action (typing, clicking) on the page
\* the browser shows, without a wait for the page-ready signal of its own
\* before it
ActsOnPage ==
    \/ pc = "login" /\ pc' = "select_user"
    \/ pc = "navigate" /\ pc' = "check_no_data"
    \/ pc = "csv" /\ csvClicks' > csvClicks
    \/ pc = "po_open" /\ pc' = "po_print"
    \/ pc = "po_print" /\ pc' = "po_confirm"
    \/ pc = "po_confirm" /\ checkboxClicks' > checkboxClicks

\* C25: no phase types or clicks on a page before the page-ready signal was
\* observed after the navigation that led to the page; this holds for the
\* login after a re-login click and for the click on the listing tab at the
\* start of every round, also after a confirmation submit or a
\* back-navigation.
C25_ReadyBeforeAction == [][ ActsOnPage => ready ]_vars

\* C26: no error of a phase step is silently swallowed: when setting the
\* search date, the CSV export of round 1, the check for login error texts
\* or the back-navigation has failed, the run does not go on to report
\* success.
C26_NoSwallowedError == result = "True" => swallowed = {}

\* C27: when the run has ended no_data_found is true only if no order was
\* processed; a no-data message that shows after at least one order was
\* processed is an ordinary success, which the caller does not take for a
\* run without data.
C27_NoDataMeansNothingProcessed ==
    Ended => /\ no_data_found => nProcessed = 0
             /\ runOutcome = "no_data" => nProcessed = 0

\* the rows of the listing the round has skipped as processed: those before
\* the row of the link it works on
SkippedRows ==
    { k \in 1..Len(listing) :
        /\ SiteRowId(k + 1) \in processed_orders
        /\ \E t \in 1..Len(listing) : SiteRowId(t + 1) = target /\ k < t }

\* C28: with client-side tracking an order is skipped as processed only if
\* that same order was processed earlier in the run, also when the listing
\* changes between rounds (a confirmed order disappears and another order
\* takes its row id).
C28_SkippedWereProcessed ==
    test_mode /\ InOrder => \A k \in SkippedRows : listing[k] \in doneOrders

\* a production run with the confirmation enabled in which no step failed
\* and that started with at most `limit` unconsumed orders has ended
CleanConfirmedRun(limit) ==
    /\ Ended
    /\ ~test_mode
    /\ enable_confirmation_process
    /\ defect = NoDefect
    /\ exitReason \notin { "exception", "phase_failure" }
    /\ nProcessed + Cardinality(remaining) <= limit

\* C29: with the confirmation enabled and tracking off, when every phase
\* succeeds and n <= max_attempts orders are unconsumed at the start, the run
\* returns success after it has processed all n orders; it does not end in
\* failure, n = max_attempts included.
C29_AllProcessedThenSuccess ==
    CleanConfirmedRun(max_attempts) => result = "True" /\ remaining = {}

\* the identifiers of the rows of g that are displayed and enabled, in row
\* order
RECURSIVE ShownIds(_, _)
ShownIds(g, k) ==
    IF k > Len(g) THEN << >>
    ELSE (IF g[k] = "shown" THEN << SiteRowId(k + 1) >> ELSE << >>)
         \o ShownIds(g, k + 1)

\* C30: for a listing of 0..18 contiguous rows (indices 02..19)
\* _get_available_order_links returns, in row order and without duplicates,
\* the identifier of every row that is displayed and enabled: the
\* identifier generated for row index i is the site's for every i in 2..19,
\* hidden and disabled rows are left out without ending the scan, and the
\* scan ends at the first row index that is missing.
C30_ScanReturnsShownRows ==
    spc = "done" => available_links = ShownIds(grid, 1)

============================================================================
